---- MODULE Spec2Model ----
(***************************************************************************)
(* The event reactor of the minus pager (src/src/core/init.rs): init_core, *)
(* generate_initial_state, start_reactor (dynamic_matcher, static_matcher)  *)
(* and event_reader, with the host that feeds the channel and the terminal  *)
(* whose I/O may fail (Spec, FairSpec); the input classifier applied to a   *)
(* PagerState by itself (KeysSpec, src/src/input/tests.rs); and write_lines *)
(* of src/src/utils.rs called by itself (WriteLinesSpec).                   *)
(***************************************************************************)
EXTENDS Integers, Sequences, FiniteSets, TLC

\* ---------------------------------------------------------------- bounds
\* Events the host sends on the channel over a run.
MaxHost == 2
\* Terminal events the input reader reads over a run.
MaxKeys == 2
\* Raw lines carried by one AppendData text.
MaxAppend == 2

\* -------------------------------------------------------------- the state
VARIABLES
    runmode,              \* RUNMODE: "Static" or "Dynamic" (write-once)
    feat_static,          \* the build has feature "static_output"
    is_tty,               \* stdout().is_tty()
    chan,                 \* the crossbeam channel: events sent, not yet received
    ps,                   \* the PagerState
    pc,                   \* where init_core / start_reactor stands
    result,               \* what init_core returned: "none", "Ok", "Err"
    cur,                  \* the event the reactor received (try_recv)
    is_exitted,           \* start_reactor's is_exitted cell
    lock,                 \* holder of the PagerState mutex
    rd_pc,                \* where event_reader stands
    rd_ev,                \* the terminal event the reader read
    input_thread_running, \* the pause flag (feature "search")
    term_mode,            \* "cooked" or "raw"
    out,                  \* terminal writes of the latest main-thread step
    n_full,               \* full writes so far (draw and write_lines calls)
    host_sent,            \* events the host has sent
    keys_read,            \* terminal events the reader has read
    hist,                 \* history of the run (what the claims speak about)
    call                  \* a call of utils::write_lines: arguments and outcome

vars == <<runmode, feat_static, is_tty, chan, ps, pc, result, cur, is_exitted,
          lock, rd_pc, rd_ev, input_thread_running, term_mode, out, n_full,
          host_sent, keys_read, hist, call>>

\* ---------------------------------------------------------------- events
NoInput == [kind |-> "None", val |-> 0]

InputEv(k, v) == [kind |-> k, val |-> v]

\* An Event: its variant, the number of display lines its text formats to (the
\* text is the host's and wrapping is the formatter's: a text is known here by
\* its display lines 1..n), and the InputEvent a UserInput wraps.
Ev(t, n, i) == [type |-> t, n |-> n, inp |-> i]

UserInput(i) == Ev("UserInput", 0, i)

NoEvent == Ev("None", 0, NoInput)

\* What the host may send.
HostEvents ==
    {Ev("AppendData", n, NoInput) : n \in 1..MaxAppend}
        \cup {Ev("SetPrompt", 1, NoInput), Ev("SendMessage", 1, NoInput),
              Ev("SetRunNoOverflow", 0, NoInput)}

\* Terminal events the reader may read.
Keys == {"Down", "q", "1", "a", "Enter", "/"}

\* The navigation keys and the line-number toggle, pressed in any order.
NavKeys == {"Down", "Up", "PageUp", "PageDown", "Space", "Ctrl-l"}

\* ------------------------------------------------------------ PagerState
\* usize::MAX of the modelled machine word.
UsizeMax == 7

Min(a, b) == IF a < b THEN a ELSE b

Max(a, b) == IF a > b THEN a ELSE b

\* A slip of the addition: usize::wrapping_add.
WrappingAdd(a, b) == (a + b) % (UsizeMax + 1)

\* usize::saturating_add, usize::saturating_sub
SatAdd(a, b) == Min(a + b, UsizeMax)

SatSub(a, b) == Max(a - b, 0)

\* PagerState::new(): no lines, the view at the top, the terminal's size, the
\* default prompt (tag 0), no message (tag 0 is None), run_no_overflow off.
NewPagerState(rows, cols) ==
    [formatted_lines |-> <<>>, upper_mark |-> 0, rows |-> rows, cols |-> cols,
     line_numbers |-> "No", prompt |-> 0, message |-> 0,
     run_no_overflow |-> FALSE, prefix_num |-> <<>>]

\* PagerState::num_lines()
NumLines(p) == Len(p.formatted_lines)

\* PagerState::make_append_str(text): the display lines the text formats to.
MakeAppendStr(ev, p) == [i \in 1..ev.n |-> i]

\* wrap_str(text, cols): the prompt text formatted to the column width; its
\* first line is what write_prompt shows.
WrapStr(ev, cols) == ev.n

\* ------------------------------------------------------------ classifier
\* The four LineNumbers modes.
LineNumbers == {"Enabled", "Yes", "No", "Disabled"}

\* A slip of the toggle: the two fixed modes are flipped as well.
NotFlipsAll(m) ==
    CASE m = "Yes" -> "No"
      [] m = "No" -> "Yes"
      [] m = "Enabled" -> "Disabled"
      [] OTHER -> "Enabled"

\* impl std::ops::Not for LineNumbers
Not(m) ==
    IF m = "Yes" THEN "No"
    ELSE IF m = "No" THEN "Yes"
    ELSE m

\* A slip of the page step: a whole screen of rows.
PageStepRows(rows) == rows

\* The lines PageUp, PageDown and Space move the view by: one less than the
\* rows (from upper_mark 12 with 5 rows, PageUp gives 8 and PageDown 16).
PageStep(rows) == rows - 1

\* InputClassifier::classify_input(ev, &PagerState) for the terminal events of
\* Keys and NavKeys: Some(InputEvent) or None (kind "None").
ClassifyInput(key, p) ==
    CASE key = "Down" -> InputEv("UpdateUpperMark", SatAdd(p.upper_mark, 1))
      [] key = "Up" -> InputEv("UpdateUpperMark", SatSub(p.upper_mark, 1))
      [] key = "PageUp" ->
            InputEv("UpdateUpperMark", SatSub(p.upper_mark, PageStep(p.rows)))
      [] key \in {"PageDown", "Space"} ->
            InputEv("UpdateUpperMark", SatAdd(p.upper_mark, PageStep(p.rows)))
      [] key = "Ctrl-l" -> InputEv("UpdateLineNumber", Not(p.line_numbers))
      [] key = "Enter" ->
            IF p.message # 0
            THEN InputEv("RestorePrompt", 0)
            ELSE InputEv("UpdateUpperMark", SatAdd(p.upper_mark, 1))
      [] key = "q" -> InputEv("Exit", 0)
      [] key = "1" -> InputEv("Number", 1)
      [] key = "/" -> InputEv("Search", 0)
      [] OTHER -> NoInput

\* ------------------------------------------------------------ handle_event
\* handle_event's effect on the PagerState (the exit flag, the pause flag and
\* the terminal are the callers' part, in the actions).
HandleEvent(ev, p) ==
    CASE ev.type = "AppendData" ->
            [p EXCEPT !.formatted_lines = @ \o MakeAppendStr(ev, p)]
      [] ev.type = "SetPrompt" -> [p EXCEPT !.prompt = WrapStr(ev, p.cols)]
      [] ev.type = "SendMessage" -> [p EXCEPT !.message = WrapStr(ev, p.cols)]
      [] ev.type = "SetRunNoOverflow" -> [p EXCEPT !.run_no_overflow = TRUE]
      [] ev.type = "UserInput" /\ ev.inp.kind = "UpdateUpperMark" ->
            [p EXCEPT !.upper_mark = ev.inp.val]
      [] ev.type = "UserInput" /\ ev.inp.kind = "RestorePrompt" ->
            [p EXCEPT !.message = 0]
      [] ev.type = "UserInput" /\ ev.inp.kind = "UpdateLineNumber" ->
            [p EXCEPT !.line_numbers = ev.inp.val]
      [] OTHER -> p

\* Event::required_immidiate_screen_update
RequiredImmediateScreenUpdate(ev) == ev.type = "UserInput"

\* ------------------------------------------------------------------ display
\* One terminal write: the operation, the screen row it starts at, the lines.
Wr(op, row, data) == [op |-> op, row |-> row, data |-> data]

\* The first line shown after a full redraw: within [0, num_lines - rows] when
\* the lines exceed the rows, else 0.
ClampedMark(p) ==
    IF NumLines(p) > p.rows THEN Min(p.upper_mark, NumLines(p) - p.rows) ELSE 0

\* draw(out, &mut PagerState): the state it leaves (upper_mark updated).
DrawState(p) == [p EXCEPT !.upper_mark = ClampedMark(p)]

\* draw(out, &mut PagerState): what it writes, the visible region.
DrawOut(p) ==
    LET q == DrawState(p)
    IN  <<Wr("draw", 0, SubSeq(q.formatted_lines, q.upper_mark + 1,
                               Min(q.upper_mark + q.rows, NumLines(q))))>>

\* write_lines(out, &mut PagerState) of the static short circuit.
WriteLinesOut(p) ==
    LET q == DrawState(p)
    IN  <<Wr("write_lines", 0, SubSeq(q.formatted_lines, q.upper_mark + 1,
                                      Min(q.upper_mark + q.rows, NumLines(q))))>>

\* --------------------------------------------------------------------- Init
\* The terminal's size when PagerState::new() asks for it.
TermRows == 2

TermCols == 2

\* No call of utils::write_lines is under way.
NoCall == [state |-> "none"]

NoHist ==
    [base_len |-> 0,            \* num_lines when the reactor loop was entered
     appended |-> 0,            \* display lines of the AppendData events it took up
     append_failed |-> FALSE,   \* the fast path's terminal write failed
     io_failed |-> FALSE,       \* a terminal operation of the main thread failed
     checked |-> FALSE,         \* init_core went through the static checks, with
     lines |-> 0,               \*   this many lines,
     rows |-> 0,                \*   this many rows
     rno |-> FALSE,             \*   and this run_no_overflow
     setup |-> "none",          \* term::setup: "none" (not called), "ok", "failed"
     reactor_entered |-> FALSE, \* start_reactor was called
     ignored |-> FALSE,         \* static_matcher dropped an event
     rd_failed |-> FALSE,       \* event_reader returned Err before init_core returned
     mode0 |-> "No",            \* line_numbers of the PagerState at the start
     toggles |-> 0,             \* Ctrl-l presses applied so far, modulo 2
     downs |-> 0,               \* Down presses the reader classified and sent
     pending |-> 0]             \* events queued at the call of init_core that
                                \*   generate_initial_state has not consumed yet

Init ==
    /\ runmode \in {"Static", "Dynamic"}
    /\ feat_static \in BOOLEAN
    /\ (runmode = "Static" => feat_static)
    /\ is_tty \in BOOLEAN
    /\ chan = <<>>
    /\ ps = NewPagerState(TermRows, TermCols)
    /\ pc = "start"
    /\ result = "none"
    /\ cur = NoEvent
    /\ is_exitted = FALSE
    /\ lock = "none"
    /\ rd_pc = "none"
    /\ rd_ev = "none"
    /\ input_thread_running = TRUE
    /\ term_mode = "cooked"
    /\ out = <<>>
    /\ n_full = 0
    /\ host_sent = 0
    /\ keys_read = 0
    /\ hist = NoHist
    /\ call = NoCall

\* What no step of a session changes: the mode, the build, the terminal's
\* kind (and the call of utils::write_lines, which no session makes).
buildVars == <<runmode, feat_static, is_tty, call>>

readerVars == <<rd_pc, rd_ev, keys_read>>

\* ----------------------------------------------------------------- the host
\* The host sends an event (Pager::push_str, set_prompt, send_message, ...)
\* while a receiver is alive.
HostSend ==
    /\ host_sent < MaxHost
    /\ pc # "returned"
    /\ \E ev \in HostEvents : chan' = Append(chan, ev)
    /\ host_sent' = host_sent + 1
    /\ UNCHANGED <<buildVars, ps, pc, result, cur, is_exitted, lock, readerVars,
                   input_thread_running, term_mode, out, n_full, hist>>

\* ---------------------------------------------------------------- init_core
\* init_core returns: the Pager (its tx and rx) and the reactor's rx are dropped.
Return(res) ==
    /\ pc' = "returned"
    /\ result' = res

\* init_core is called with the Pager (the host may have queued events on
\* its channel already): generate_initial_state makes a PagerState::new().
Call ==
    /\ pc = "start"
    /\ pc' = "gen"
    /\ ps' = NewPagerState(TermRows, TermCols)
    /\ out' = <<>>
    /\ hist' = [hist EXCEPT !.pending = Len(chan)]
    /\ UNCHANGED <<buildVars, chan, result, cur, is_exitted, lock, readerVars,
                   input_thread_running, term_mode, n_full, host_sent>>

\* A slip of the drain: one event is taken, not all of them.
TryIterEndsAfterOne == chan = <<>> \/ Len(chan) < host_sent

\* rx.try_iter() ends: the channel is empty.
TryIterEnds == chan = <<>>

\* generate_initial_state: try_iter yields a queued event, handle_event
\* applies it (or fails: the error is returned).
GenHandle ==
    /\ pc = "gen"
    /\ ~TryIterEnds
    /\ chan' = Tail(chan)
    /\ out' = <<>>
    /\ \E ok \in BOOLEAN :
          IF ok
          THEN /\ ps' = HandleEvent(Head(chan), ps)
               /\ hist' = [hist EXCEPT !.pending = Max(@ - 1, 0)]
               /\ UNCHANGED <<pc, result>>
          ELSE /\ Return("Err")
               /\ hist' = [hist EXCEPT !.io_failed = TRUE]
               /\ UNCHANGED ps
    /\ UNCHANGED <<buildVars, cur, is_exitted, lock, readerVars,
                   input_thread_running, term_mode, n_full, host_sent>>

\* generate_initial_state: try_iter finds the channel empty and ends.
GenDone ==
    /\ pc = "gen"
    /\ TryIterEnds
    /\ pc' = "checks"
    /\ out' = <<>>
    /\ UNCHANGED <<buildVars, chan, ps, result, cur, is_exitted, lock, readerVars,
                   input_thread_running, term_mode, n_full, host_sent, hist>>

\* The first static check: stdout is not a tty.
NotTtyCheck == feat_static /\ ~is_tty

\* A slip of the second static check: the lines must be fewer than the rows.
NoOverflowCheckStrict(p) == feat_static /\ NumLines(p) < p.rows /\ p.run_no_overflow

\* The second static check: the lines fit the rows and run_no_overflow.
NoOverflowCheck(p) == feat_static /\ NumLines(p) <= p.rows /\ p.run_no_overflow

\* What the static checks saw.
Checked(h, p) ==
    [h EXCEPT !.checked = TRUE, !.lines = NumLines(p), !.rows = p.rows,
              !.rno = p.run_no_overflow]

\* init_core, static checks: write_lines and return (Err if the write failed).
WriteAndQuit ==
    /\ pc = "checks"
    /\ NotTtyCheck \/ NoOverflowCheck(ps)
    /\ out' = WriteLinesOut(ps)
    /\ n_full' = n_full + 1
    /\ \E ok \in BOOLEAN :
          IF ok
          THEN /\ ps' = DrawState(ps)
               /\ Return("Ok")
               /\ hist' = Checked(hist, ps)
          ELSE /\ Return("Err")
               /\ hist' = [Checked(hist, ps) EXCEPT !.io_failed = TRUE]
               /\ UNCHANGED ps
    /\ UNCHANGED <<buildVars, chan, cur, is_exitted, lock, readerVars,
                   input_thread_running, term_mode, host_sent>>

\* init_core: no static check applies; term::setup, then the reader thread is
\* spawned and start_reactor called.
Setup ==
    /\ pc = "checks"
    /\ ~(NotTtyCheck \/ NoOverflowCheck(ps))
    /\ out' = <<>>
    /\ \E ok \in BOOLEAN :
          IF ok
          THEN /\ term_mode' = "raw"
               /\ rd_pc' = "check"
               /\ pc' = "draw0"
               /\ hist' = [Checked(hist, ps) EXCEPT !.setup = "ok",
                                                     !.reactor_entered = TRUE,
                                                     !.base_len = NumLines(ps)]
               /\ UNCHANGED result
          ELSE /\ Return("Err")
               /\ hist' = [Checked(hist, ps) EXCEPT !.setup = "failed",
                                                     !.io_failed = TRUE]
               /\ UNCHANGED <<term_mode, rd_pc>>
    /\ UNCHANGED <<buildVars, chan, ps, cur, is_exitted, lock, rd_ev, keys_read,
                   input_thread_running, n_full, host_sent>>

\* ------------------------------------------------------------ start_reactor
mainFrame == <<buildVars, host_sent, readerVars>>

\* A terminal operation of the reactor failed: the ? returns the error, the
\* guard is dropped.
ReactorFails ==
    /\ Return("Err")
    /\ lock' = "none"
    /\ cur' = NoEvent
    /\ hist' = [hist EXCEPT !.io_failed = TRUE]

\* A slip of the mutex: lock() is granted whoever holds it.
MutexGrantedAlways == TRUE

\* Mutex::lock() is granted: no thread holds the PagerState mutex.
MutexFree == lock = "none"

\* start_reactor: ps.lock() of the initial draw.
InitDrawLock ==
    /\ pc = "draw0"
    /\ MutexFree
    /\ lock' = "reactor"
    /\ pc' = "draw0_crit"
    /\ out' = <<>>
    /\ UNCHANGED <<mainFrame, chan, ps, result, cur, is_exitted,
                   input_thread_running, term_mode, n_full, hist>>

\* start_reactor: the initial draw, under the lock.
InitDraw ==
    /\ pc = "draw0_crit"
    /\ out' = DrawOut(ps)
    /\ n_full' = n_full + 1
    /\ \E ok \in BOOLEAN :
          IF ok
          THEN /\ ps' = DrawState(ps)
               /\ pc' = "loop"
               /\ lock' = "none"
               /\ UNCHANGED <<result, cur, hist>>
          ELSE /\ ReactorFails
               /\ UNCHANGED ps
    /\ UNCHANGED <<mainFrame, chan, is_exitted, input_thread_running, term_mode>>

\* A slip of the loop top: the flag is looked at only once the channel is empty.
LoopTopBreakWhenDrained == is_exitted /\ chan = <<>>

\* Either matcher, loop top: if *is_exitted.borrow() { break; }
LoopTopBreak == is_exitted

\* Either matcher, loop top: is_exitted is set, break and return Ok.
ReactorExit ==
    /\ pc = "loop"
    /\ LoopTopBreak
    /\ Return("Ok")
    /\ out' = <<>>
    /\ UNCHANGED <<mainFrame, chan, ps, cur, is_exitted, lock,
                   input_thread_running, term_mode, n_full, hist>>

\* Either matcher: try_recv finds the channel empty (Err(_) => {}).
RecvEmpty ==
    /\ pc = "loop"
    /\ ~LoopTopBreak
    /\ chan = <<>>
    /\ out' = <<>>
    /\ UNCHANGED <<mainFrame, chan, ps, pc, result, cur, is_exitted, lock,
                   input_thread_running, term_mode, n_full, hist>>

\* dynamic_matcher: try_recv yields an event; every arm then takes the lock.
DynRecv ==
    /\ pc = "loop"
    /\ runmode = "Dynamic"
    /\ ~LoopTopBreak
    /\ chan # <<>>
    /\ cur' = Head(chan)
    /\ chan' = Tail(chan)
    /\ pc' = "lock"
    /\ out' = <<>>
    /\ UNCHANGED <<mainFrame, ps, result, is_exitted, lock,
                   input_thread_running, term_mode, n_full, hist>>

\* A slip of static_matcher's pattern: any received event is handled.
StaticAcceptsAny(ev) == ev.type # "None"

\* static_matcher's pattern: if let Ok(Event::UserInput(inp)) = rx.try_recv()
StaticAccepts(ev) == ev.type = "UserInput"

\* static_matcher: try_recv yields an event; a UserInput is taken to the lock,
\* any other event is dropped.
StaticRecv ==
    /\ pc = "loop"
    /\ runmode = "Static"
    /\ ~LoopTopBreak
    /\ chan # <<>>
    /\ chan' = Tail(chan)
    /\ out' = <<>>
    /\ IF StaticAccepts(Head(chan))
       THEN cur' = Head(chan) /\ pc' = "lock" /\ UNCHANGED hist
       ELSE hist' = [hist EXCEPT !.ignored = TRUE] /\ UNCHANGED <<cur, pc>>
    /\ UNCHANGED <<mainFrame, ps, result, is_exitted, lock,
                   input_thread_running, term_mode, n_full>>

\* Either matcher: ps.lock().unwrap()
ReactorLock ==
    /\ pc = "lock"
    /\ MutexFree
    /\ lock' = "reactor"
    /\ pc' = "crit"
    /\ out' = <<>>
    /\ UNCHANGED <<mainFrame, chan, ps, result, cur, is_exitted,
                   input_thread_running, term_mode, n_full, hist>>

\* handle_event(ev, ..)? followed by draw(..)?: the first arm of
\* dynamic_matcher and the body of static_matcher. handle_event of Exit sets
\* is_exitted and cleans the terminal up.
HandleThenDraw ==
    /\ \E fail \in {"none", "handle", "draw"} :
          IF fail = "handle"
          THEN /\ ReactorFails
               /\ out' = <<>>
               /\ UNCHANGED <<ps, is_exitted, term_mode, n_full>>
          ELSE LET p1 == HandleEvent(cur, ps)
                   ex == cur.inp.kind = "Exit"
               IN  /\ is_exitted' = (is_exitted \/ ex)
                   /\ term_mode' = IF ex THEN "cooked" ELSE term_mode
                   /\ out' = DrawOut(p1)
                   /\ n_full' = n_full + 1
                   /\ IF fail = "draw"
                      THEN /\ ReactorFails
                           /\ ps' = p1
                      ELSE /\ ps' = DrawState(p1)
                           /\ pc' = "loop"
                           /\ lock' = "none"
                           /\ cur' = NoEvent
                           /\ UNCHANGED <<result, hist>>
    /\ UNCHANGED <<mainFrame, chan, input_thread_running>>

\* dynamic_matcher, first arm: Ok(ev) if ev.required_immidiate_screen_update()
DynImmediate ==
    /\ pc = "crit"
    /\ runmode = "Dynamic"
    /\ RequiredImmediateScreenUpdate(cur)
    /\ cur.inp.kind # "Search"
    /\ HandleThenDraw

\* static_matcher: handle_event(Event::UserInput(inp)) then draw.
StaticUserInput ==
    /\ pc = "crit"
    /\ runmode = "Static"
    /\ cur.inp.kind # "Search"
    /\ HandleThenDraw

\* handle_event of Search, first half: the reader is paused while the query is
\* typed (the reactor still holds the lock).
SearchBegin ==
    /\ pc = "crit"
    /\ cur.inp.kind = "Search"
    /\ input_thread_running' = FALSE
    /\ pc' = "search"
    /\ out' = <<>>
    /\ UNCHANGED <<mainFrame, chan, ps, result, cur, is_exitted, lock, term_mode,
                   n_full, hist>>

\* handle_event of Search, second half: the reader is resumed; then the draw
\* that follows handle_event in both matchers.
SearchEnd ==
    /\ pc = "search"
    /\ input_thread_running' = TRUE
    /\ out' = DrawOut(ps)
    /\ n_full' = n_full + 1
    /\ \E ok \in BOOLEAN :
          IF ok
          THEN /\ ps' = DrawState(ps)
               /\ pc' = "loop"
               /\ lock' = "none"
               /\ cur' = NoEvent
               /\ UNCHANGED <<result, hist>>
          ELSE /\ ReactorFails
               /\ UNCHANGED ps
    /\ UNCHANGED <<mainFrame, chan, is_exitted, term_mode>>

\* A slip of the second arm: the prompt is set for either event.
SetPromptAlways(ev, p) == [p EXCEPT !.prompt = WrapStr(ev, p.cols)]

\* The field the second arm updates: prompt for SetPrompt, message otherwise.
SetPromptOrMessage(ev, p) ==
    IF ev.type = "SetPrompt"
    THEN [p EXCEPT !.prompt = WrapStr(ev, p.cols)]
    ELSE [p EXCEPT !.message = WrapStr(ev, p.cols)]

\* What the second arm writes: the cursor to the prompt row, the prompt line.
PromptOut(ev, p) ==
    <<Wr("move_cursor", p.rows, <<>>), Wr("write_prompt", p.rows, <<WrapStr(ev, p.cols)>>)>>

\* dynamic_matcher, second arm: Ok(Event::SetPrompt) | Ok(Event::SendMessage)
DynPrompt ==
    /\ pc = "crit"
    /\ runmode = "Dynamic"
    /\ ~RequiredImmediateScreenUpdate(cur)
    /\ cur.type \in {"SetPrompt", "SendMessage"}
    /\ ps' = SetPromptOrMessage(cur, ps)
    /\ out' = PromptOut(cur, ps)
    /\ \E ok \in BOOLEAN :
          IF ok
          THEN /\ pc' = "loop"
               /\ lock' = "none"
               /\ cur' = NoEvent
               /\ UNCHANGED <<result, hist>>
          ELSE ReactorFails
    /\ UNCHANGED <<mainFrame, chan, is_exitted, input_thread_running, term_mode,
                   n_full>>

\* A slip of the third arm: no row is kept for the prompt.
NumAppendableNoPrompt(fmt, p) ==
    Min(Len(fmt), SatSub(p.rows, NumLines(p)))

\* available_rows and num_appendable of the third arm.
NumAppendable(fmt, p) ==
    Min(Len(fmt), SatSub(p.rows, SatAdd(NumLines(p), 1)))

\* What the third arm writes while the rows are not filled.
AppendOut(fmt, p) ==
    IF NumLines(p) < p.rows
    THEN <<Wr("move_cursor", NumLines(p), <<>>),
           Wr("write", NumLines(p), SubSeq(fmt, 1, NumAppendable(fmt, p)))>>
    ELSE <<>>

\* A slip of the third arm: only the lines the fast path wrote are kept.
AppendWrittenOnly(fmt, p) ==
    [p EXCEPT !.formatted_lines =
        @ \o SubSeq(fmt, 1, Min(Len(fmt), SatSub(p.rows, SatAdd(NumLines(p), 1))))]

\* p.formatted_lines.append(&mut fmt_text)
AppendFormatted(fmt, p) == [p EXCEPT !.formatted_lines = @ \o fmt]

\* dynamic_matcher, third arm: Ok(Event::AppendData(text))
DynAppend ==
    /\ pc = "crit"
    /\ runmode = "Dynamic"
    /\ ~RequiredImmediateScreenUpdate(cur)
    /\ cur.type = "AppendData"
    /\ LET fmt == MakeAppendStr(cur, ps)
       IN  /\ out' = AppendOut(fmt, ps)
           /\ \E ok \in (IF NumLines(ps) < ps.rows THEN BOOLEAN ELSE {TRUE}) :
                 IF ok
                 THEN /\ ps' = AppendFormatted(fmt, ps)
                      /\ pc' = "loop"
                      /\ lock' = "none"
                      /\ cur' = NoEvent
                      /\ hist' = [hist EXCEPT !.appended = @ + cur.n]
                      /\ UNCHANGED result
                 ELSE /\ Return("Err")
                      /\ lock' = "none"
                      /\ cur' = NoEvent
                      /\ hist' = [hist EXCEPT !.appended = @ + cur.n,
                                               !.append_failed = TRUE,
                                               !.io_failed = TRUE]
                      /\ UNCHANGED ps
    /\ UNCHANGED <<mainFrame, chan, is_exitted, input_thread_running, term_mode,
                   n_full>>

\* dynamic_matcher, fourth arm: Ok(ev) => handle_event(ev, ..)?
DynOther ==
    /\ pc = "crit"
    /\ runmode = "Dynamic"
    /\ ~RequiredImmediateScreenUpdate(cur)
    /\ cur.type \notin {"SetPrompt", "SendMessage", "AppendData"}
    /\ out' = <<>>
    /\ \E ok \in BOOLEAN :
          IF ok
          THEN /\ ps' = HandleEvent(cur, ps)
               /\ pc' = "loop"
               /\ lock' = "none"
               /\ cur' = NoEvent
               /\ UNCHANGED <<result, hist>>
          ELSE /\ ReactorFails
               /\ UNCHANGED ps
    /\ UNCHANGED <<mainFrame, chan, is_exitted, input_thread_running, term_mode,
                   n_full>>

\* -------------------------------------------------------------- event_reader
readerFrame ==
    <<buildVars, pc, result, cur, is_exitted, input_thread_running, term_mode,
      out, n_full, host_sent>>

\* Every Receiver has been dropped: try_send reports Disconnected.
Disconnected == pc = "returned"

\* event_reader returns Err (event::poll or event::read failed).
ReaderFails ==
    /\ rd_pc' = "failed"
    /\ hist' = [hist EXCEPT !.rd_failed = @ \/ (pc # "returned")]

\* Loop top while paused: !input_thread_running => continue
ReaderPaused ==
    /\ rd_pc = "check"
    /\ ~input_thread_running
    /\ UNCHANGED vars

\* Loop top while running: go on to event::poll.
ReaderCheck ==
    /\ rd_pc = "check"
    /\ input_thread_running
    /\ rd_pc' = "poll"
    /\ UNCHANGED <<readerFrame, chan, ps, lock, rd_ev, keys_read, hist>>

\* event::poll(10ms): an event is ready, the timeout passes, or it fails.
ReaderPoll ==
    /\ rd_pc = "poll"
    /\ \E r \in {"ready", "timeout", "err"} :
          CASE r = "ready" ->
                  /\ keys_read < MaxKeys
                  /\ rd_pc' = "read"
                  /\ UNCHANGED hist
            [] r = "timeout" ->
                  /\ rd_pc' = "check"
                  /\ UNCHANGED hist
            [] OTHER -> ReaderFails
    /\ UNCHANGED <<readerFrame, chan, ps, lock, rd_ev, keys_read>>

\* event::read(): a terminal event, or it fails.
ReaderRead ==
    /\ rd_pc = "read"
    /\ \/ /\ \E k \in Keys : rd_ev' = k
          /\ keys_read' = keys_read + 1
          /\ rd_pc' = "lock"
          /\ UNCHANGED hist
       \/ /\ ReaderFails
          /\ UNCHANGED <<rd_ev, keys_read>>
    /\ UNCHANGED <<readerFrame, chan, ps, lock>>

\* let mut guard = ps.lock().unwrap()
ReaderLock ==
    /\ rd_pc = "lock"
    /\ MutexFree
    /\ lock' = "reader"
    /\ rd_pc' = "crit"
    /\ UNCHANGED <<readerFrame, chan, ps, rd_ev, keys_read, hist>>

\* A slip of the reader: the result of try_send is not looked at.
AfterSendIgnored(disconnected) == "check"

\* Where the reader goes after try_send: break on Disconnected, else loop.
AfterSend(disconnected) == IF disconnected THEN "done" ELSE "check"

\* A slip of the reader: the guard outlives the iteration.
GuardKept == "reader"

\* The holder of the mutex once the reader's guard has gone out of scope.
GuardDropped == "none"

\* A slip of the reader: prefix_num is cleared only by a forwarded event.
PrefixNumKeptOnNone(input, p) ==
    CASE input.kind = "Number" -> Append(p.prefix_num, input.val)
      [] input.kind = "None" -> p.prefix_num
      [] OTHER -> <<>>

\* prefix_num after the reader has classified an event: a Number is pushed,
\* anything else (Some or None) clears it.
PrefixNum(input, p) ==
    IF input.kind = "Number" THEN Append(p.prefix_num, input.val) ELSE <<>>

\* Under the guard: classify, push or clear prefix_num, try_send; the guard is
\* dropped as the block (or the function) is left.
ReaderClassify ==
    /\ rd_pc = "crit"
    /\ LET input == ClassifyInput(rd_ev, ps)
       IN  CASE input.kind = "Number" ->
                   /\ ps' = [ps EXCEPT !.prefix_num = PrefixNum(input, ps)]
                   /\ rd_pc' = "check"
                   /\ UNCHANGED chan
             [] input.kind = "None" ->
                   /\ ps' = [ps EXCEPT !.prefix_num = PrefixNum(input, ps)]
                   /\ rd_pc' = "check"
                   /\ UNCHANGED chan
             [] OTHER ->
                   /\ ps' = [ps EXCEPT !.prefix_num = PrefixNum(input, ps)]
                   /\ chan' = IF Disconnected THEN chan
                              ELSE Append(chan, UserInput(input))
                   /\ rd_pc' = AfterSend(Disconnected)
    /\ hist' = IF rd_ev = "Down" /\ ~Disconnected
               THEN [hist EXCEPT !.downs = @ + 1]
               ELSE hist
    /\ lock' = GuardDropped
    /\ rd_ev' = "none"
    /\ UNCHANGED <<readerFrame, keys_read>>

\* ------------------------------------------------------------ specification
Main ==
    \/ Call \/ GenHandle \/ GenDone \/ WriteAndQuit \/ Setup
    \/ InitDrawLock \/ InitDraw \/ ReactorExit \/ RecvEmpty
    \/ DynRecv \/ StaticRecv \/ ReactorLock
    \/ DynImmediate \/ StaticUserInput \/ SearchBegin \/ SearchEnd
    \/ DynPrompt \/ DynAppend \/ DynOther

Reader ==
    \/ ReaderPaused \/ ReaderCheck \/ ReaderPoll \/ ReaderRead
    \/ ReaderLock \/ ReaderClassify

Next == HostSend \/ Main \/ Reader

Spec == Init /\ [][Next]_vars

\* The two threads are scheduled fairly; the host and the terminal owe nothing.
FairSpec == Spec /\ WF_vars(Main) /\ WF_vars(Reader)

\* ------------------------------------------------- the classifier by itself
\* Rows of the terminals the classifier is exercised with.
MaxRows == 3

\* Any PagerState the keys may be pressed against: any view position, any
\* number of rows, any line-number mode. No thread runs: the keys are
\* classified and applied one after the other.
KeysInit ==
    /\ runmode = "Static"
    /\ feat_static = TRUE
    /\ is_tty = TRUE
    /\ chan = <<>>
    /\ \E u \in 0..UsizeMax, r \in 1..MaxRows, m \in LineNumbers :
          ps = [NewPagerState(r, TermCols) EXCEPT !.upper_mark = u,
                                                  !.line_numbers = m]
    /\ pc = "keys"
    /\ result = "none"
    /\ cur = NoEvent
    /\ is_exitted = FALSE
    /\ lock = "none"
    /\ rd_pc = "none"
    /\ rd_ev = "none"
    /\ input_thread_running = TRUE
    /\ term_mode = "raw"
    /\ out = <<>>
    /\ n_full = 0
    /\ host_sent = 0
    /\ keys_read = 0
    /\ hist = [NoHist EXCEPT !.mode0 = ps.line_numbers]
    /\ call = NoCall

\* A key is pressed: classify_input against the PagerState as it is, then
\* handle_event of the UserInput event it yields.
KeyPress ==
    /\ pc = "keys"
    /\ \E key \in NavKeys :
          /\ rd_ev' = key
          /\ cur' = UserInput(ClassifyInput(key, ps))
          /\ ps' = HandleEvent(cur', ps)
          /\ hist' = IF key = "Ctrl-l"
                     THEN [hist EXCEPT !.toggles = (@ + 1) % 2]
                     ELSE hist
    /\ UNCHANGED <<buildVars, chan, pc, result, is_exitted, lock, rd_pc, keys_read,
                   input_thread_running, term_mode, out, n_full, host_sent>>

KeysNext == KeyPress

KeysSpec == KeysInit /\ [][KeysNext]_vars

\* ------------------------------------------------- utils::write_lines alone
\* Lines of the texts write_lines is called with.
MaxLines == 4

\* usize arithmetic without overflow checks: the result modulo 2^w.
Wrap(x) == x % (UsizeMax + 1)

\* The exact result does not fit a usize: with overflow checks (a debug
\* build) the operation panics, without them (a release build) it wraps.
Overflows(x) == x < 0 \/ x > UsizeMax

\* write_lines(out, lines, rows, upper_mark, ln) on the arguments c, every
\* write succeeding: whether an operation overflows, the upper_mark it leaves
\* and the lines it writes (how many, from which index).
WriteLines(c) ==
    LET line_count == c.n
        sum == c.upper_mark + c.rows
        lower0 == Wrap(sum) - (IF c.ends_nl THEN 1 ELSE 0)
        clamped == Wrap(lower0) > line_count
        lower_mark == IF clamped THEN line_count ELSE Wrap(lower0)
        upper_mark == IF ~clamped THEN c.upper_mark
                      ELSE IF line_count < c.rows THEN 0
                      ELSE line_count - c.rows
        take == lower_mark - upper_mark
        numbered == c.ln \in {"Yes", "Enabled"}
        max_line_number == lower_mark + upper_mark + 1
    IN  [overflow |-> \/ Overflows(sum)
                      \/ Overflows(lower0)
                      \/ Overflows(take)
                      \/ numbered /\ Overflows(max_line_number),
         upper_mark |-> upper_mark,
         written |-> Min(Max(line_count - upper_mark, 0), Wrap(take))]

\* The arguments of a call: a text of n lines that ends with a newline or
\* not (an empty text does not), any rows (0 included: a usize), any
\* requested upper_mark, any line-number mode; and the build (overflow
\* checks on or off).  requested keeps the upper_mark passed in, which the
\* call overwrites; overflowed records an operation whose exact result did
\* not fit a usize.
WriteLinesInit ==
    /\ runmode = "Static"
    /\ feat_static = TRUE
    /\ is_tty = TRUE
    /\ chan = <<>>
    /\ ps = NewPagerState(TermRows, TermCols)
    /\ pc = "write_lines"
    /\ result = "none"
    /\ cur = NoEvent
    /\ is_exitted = FALSE
    /\ lock = "none"
    /\ rd_pc = "none"
    /\ rd_ev = "none"
    /\ input_thread_running = TRUE
    /\ term_mode = "cooked"
    /\ out = <<>>
    /\ n_full = 0
    /\ host_sent = 0
    /\ keys_read = 0
    /\ hist = NoHist
    /\ \E n \in 0..MaxLines, nl \in BOOLEAN, r \in 0..MaxRows,
          u \in 0..UsizeMax, ln \in LineNumbers, chk \in BOOLEAN :
          /\ nl => n >= 1
          /\ call = [state |-> "called", n |-> n, ends_nl |-> nl, rows |-> r,
                     upper_mark |-> u, ln |-> ln, overflow_checks |-> chk,
                     written |-> 0, requested |-> u, overflowed |-> FALSE]

\* The call runs to its end: it panics (an overflow with the checks on),
\* returns Err after a write failed, or returns Ok.
WriteLinesCall ==
    /\ pc = "write_lines"
    /\ call.state = "called"
    /\ LET w == WriteLines(call)
       IN  IF w.overflow /\ call.overflow_checks
           THEN call' = [call EXCEPT !.state = "panicked",
                                     !.overflowed = TRUE]
           ELSE \/ call' = [call EXCEPT !.state = "returned Ok",
                                        !.upper_mark = w.upper_mark,
                                        !.written = w.written,
                                        !.overflowed = w.overflow]
                \/ \E k \in 0..(w.written - 1) :
                      call' = [call EXCEPT !.state = "returned Err",
                                           !.upper_mark = w.upper_mark,
                                           !.written = k,
                                           !.overflowed = w.overflow]
    /\ UNCHANGED <<runmode, feat_static, is_tty, chan, ps, pc, result, cur,
                   is_exitted, lock, rd_pc, rd_ev, input_thread_running,
                   term_mode, out, n_full, host_sent, keys_read, hist>>

WriteLinesNext == WriteLinesCall

WriteLinesSpec == WriteLinesInit /\ [][WriteLinesNext]_vars

\* ------------------------------------------------------------------ claims

\* C1: in Dynamic mode, whatever the reactor has handled so far, formatted_lines
\* holds the lines it held when the loop was entered plus every display line
\* of every AppendData event the reactor took up, whether the fast path wrote
\* all, some or none of them (a fast-path write that fails returns the error
\* before the append: the session is over).
C1_AppendNeverLosesLines ==
    (runmode = "Dynamic" /\ hist.reactor_entered /\ ~hist.append_failed)
        => NumLines(ps) = hist.base_len + hist.appended

\* C1's case: an append of two lines of which the fast path wrote only one.
C1_Witness ==
    /\ runmode = "Dynamic"
    /\ pc = "loop"
    /\ hist.appended >= 2
    /\ Len(out) = 2
    /\ out[2].op = "write"
    /\ Len(out[2].data) = 1
    /\ ps.formatted_lines[NumLines(ps)] = 2

\* C2: whenever init_core has returned an error after term::setup succeeded,
\* the terminal is back in cooked mode.
C2_TerminalRestoredOnError ==
    (pc = "returned" /\ result = "Err" /\ hist.setup = "ok") => term_mode = "cooked"

\* C3: an I/O failure of the input reader during the session is returned by
\* init_core as an error: init_core never returns Ok after event_reader failed.
C3_ReaderFailureSurfaced ==
    (pc = "returned" /\ hist.rd_failed) => result = "Err"

\* C4: from any state in which the exit flag is set, in either mode, the reactor
\* receives no event from the channel (the channel never shrinks), applies
\* none (it takes up no event and leaves the view, the lines, the prompt and
\* the message alone, and draws nothing), and its only step is the return of
\* Ok from the loop top.
C4_ExitStopsReactor ==
    [][is_exitted =>
          /\ Len(chan') >= Len(chan)
          /\ cur' = cur
          /\ ps' = [ps EXCEPT !.prefix_num = ps'.prefix_num]
          /\ n_full' = n_full
          /\ (pc' # pc => pc = "loop" /\ pc' = "returned" /\ result' = "Ok")]_vars

\* C4's case: the reactor has returned Ok on the exit flag and left an event in
\* the channel.
C4_Witness ==
    is_exitted /\ pc = "returned" /\ result = "Ok" /\ chan # <<>>

\* The short-circuit condition as the static checks saw it: stdout is not a
\* tty, or the lines fit the rows and no-overflow was requested.
ShortCircuitSeen ==
    hist.checked /\ (~is_tty \/ (hist.lines <= hist.rows /\ hist.rno))

C6_NoShortCircuitInDynamic ==
    (runmode = "Dynamic" /\ hist.checked) => hist.setup # "none"

\* C7: in Static mode on a tty with the lines fitting the rows, init_core
\* enters the interactive session (calls term::setup) exactly when
\* run_no_overflow is true, and writes everything and quits when it is false.
C7_RunNoOverflowTurnsOff ==
    (runmode = "Static" /\ is_tty /\ hist.checked /\ hist.lines <= hist.rows)
        => (hist.rno <=> hist.setup # "none")

\* C8: in Static mode the reactor takes up UserInput events only; receiving an
\* event of any other kind leaves the whole PagerState, the terminal and the
\* count of full writes unchanged and writes nothing; and handling a UserInput
\* event to its end makes exactly one full redraw.
C8_StaticOnlyUserInput ==
    [][runmode = "Static" =>
          /\ cur'.type \in {"None", "UserInput"}
          /\ (pc = "loop" /\ Len(chan') < Len(chan) /\ Head(chan).type # "UserInput")
                => /\ ps' = ps
                   /\ out' = <<>>
                   /\ n_full' = n_full
                   /\ term_mode' = term_mode
                   /\ pc' = "loop"
          /\ (pc \in {"crit", "search"} /\ pc' = "loop")
                => /\ n_full' = n_full + 1
                   /\ Len(out') = 1
                   /\ out'[1].op = "draw"
          /\ (pc = "crit" /\ pc' = "search") => n_full' = n_full]_vars

\* C8's case: the static reactor has dropped an event and has redrawn for a
\* UserInput event (the initial draw is the first full write).
C8_Witness ==
    runmode = "Static" /\ hist.ignored /\ n_full >= 2 /\ pc = "loop"

\* C9: in Dynamic mode the step that handles SetPrompt changes no field of the
\* PagerState but prompt, the step that handles SendMessage none but message;
\* each sets the field to the formatted text, moves the cursor to the prompt
\* row (rows) and writes the prompt line there, and makes no full redraw.
C9_PromptFrame ==
    [][(runmode = "Dynamic" /\ pc = "crit" /\ pc' # pc
            /\ cur.type \in {"SetPrompt", "SendMessage"}) =>
          /\ cur.type = "SetPrompt" =>
                ps' = [ps EXCEPT !.prompt = cur.n]
          /\ cur.type = "SendMessage" =>
                ps' = [ps EXCEPT !.message = cur.n]
          /\ n_full' = n_full
          /\ Len(out') = 2
          /\ out'[1].op = "move_cursor" /\ out'[1].row = ps.rows
          /\ out'[2].op = "write_prompt" /\ out'[2].row = ps.rows]_vars

\* C9's case: a SendMessage has just been handled, after a SetPrompt.
C9_Witness ==
    /\ runmode = "Dynamic"
    /\ pc = "loop"
    /\ Len(out) = 2
    /\ out[2].op = "write_prompt"
    /\ ps.message # 0
    /\ ps.prompt # 0

C11_DownUpSaturate ==
    [][rd_ev' \in {"Down", "Up"} =>
          /\ cur'.type = "UserInput"
          /\ cur'.inp.kind = "UpdateUpperMark"
          /\ cur'.inp.val \in 0..UsizeMax
          /\ rd_ev' = "Down" =>
                cur'.inp.val = IF ps.upper_mark = UsizeMax THEN UsizeMax
                               ELSE ps.upper_mark + 1
          /\ rd_ev' = "Up" =>
                cur'.inp.val = IF ps.upper_mark = 0 THEN 0
                               ELSE ps.upper_mark - 1
          /\ ps'.upper_mark = cur'.inp.val]_vars

\* C11's case: a Down pressed at usize::MAX has left the mark there.
C11_Witness ==
    /\ pc = "keys"
    /\ rd_ev = "Down"
    /\ ps.upper_mark = UsizeMax
    /\ cur.inp.val = UsizeMax

\* C12: Ctrl-l is classified as UpdateLineNumber of the toggled mode; the
\* toggle maps Yes to No and No to Yes and leaves Enabled and Disabled as they
\* are, toggling the toggled mode gives the mode back, and after any sequence
\* of presses the mode is the starting one after an even number of toggles,
\* its toggle after an odd number: starting from Enabled or Disabled no other
\* mode is ever reached.
C12_ToggleInvolution ==
    /\ pc = "keys" =>
          /\ ps.line_numbers =
                IF hist.toggles = 0 THEN hist.mode0
                ELSE CASE hist.mode0 = "Yes" -> "No"
                       [] hist.mode0 = "No" -> "Yes"
                       [] OTHER -> hist.mode0
          /\ hist.mode0 \in {"Enabled", "Disabled"} => ps.line_numbers = hist.mode0
          /\ rd_ev = "Ctrl-l" =>
                /\ cur.inp.kind = "UpdateLineNumber"
                /\ cur.inp.val = ps.line_numbers
    /\ \A m \in LineNumbers : Not(Not(m)) = m

\* C12's case: Ctrl-l has been pressed twice from Yes, and the mode is Yes.
C12_Witness ==
    /\ pc = "keys"
    /\ rd_ev = "Ctrl-l"
    /\ hist.mode0 = "Yes"
    /\ hist.toggles = 0
    /\ ps.line_numbers = "Yes"

\* C13 as claimed: PageUp is classified as UpdateUpperMark of the mark minus
\* (rows + 1), saturating at 0, PageDown and Space as UpdateUpperMark of the
\* mark plus (rows + 1), saturating at usize::MAX.
C13_PageByRowsPlusOne ==
    [][rd_ev' \in {"PageUp", "PageDown", "Space"} =>
          /\ cur'.inp.kind = "UpdateUpperMark"
          /\ rd_ev' = "PageUp" =>
                cur'.inp.val = Max(ps.upper_mark - (ps.rows + 1), 0)
          /\ rd_ev' \in {"PageDown", "Space"} =>
                cur'.inp.val = Min(ps.upper_mark + (ps.rows + 1), UsizeMax)]_vars

\* C13 as amended: PageUp is classified as UpdateUpperMark of the mark minus
\* (rows - 1), saturating at 0, PageDown and Space as UpdateUpperMark of the
\* mark plus (rows - 1), saturating at usize::MAX.
C13_PageByRowsMinusOne ==
    [][rd_ev' \in {"PageUp", "PageDown", "Space"} =>
          /\ cur'.inp.kind = "UpdateUpperMark"
          /\ cur'.inp.val \in 0..UsizeMax
          /\ rd_ev' = "PageUp" =>
                cur'.inp.val = Max(ps.upper_mark - (ps.rows - 1), 0)
          /\ rd_ev' \in {"PageDown", "Space"} =>
                cur'.inp.val = Min(ps.upper_mark + (ps.rows - 1), UsizeMax)
          /\ ps'.upper_mark = cur'.inp.val]_vars

\* C13's case: PageDown pressed with three rows at mark 2 has moved it to 4.
C13_Witness ==
    /\ pc = "keys"
    /\ rd_ev = "PageDown"
    /\ ps.rows = 3
    /\ ps.upper_mark = 4
    /\ cur.inp.val = 4

\* C14: whenever write_lines has returned Ok, for any text, rows >= 1 and
\* requested upper_mark: it wrote at most rows lines, upper_mark plus the
\* lines written is at most the line count, a text of fewer lines than rows
\* was written whole with upper_mark set to 0, and for a text of more lines
\* than rows the upper_mark left lies in [0, line_count - rows].
C14_WriteLinesWindow ==
    (call.state = "returned Ok" /\ call.rows >= 1) =>
        /\ call.written <= call.rows
        /\ call.upper_mark + call.written <= call.n
        /\ call.n < call.rows => (call.written = call.n /\ call.upper_mark = 0)
        /\ call.n > call.rows => call.upper_mark \in 0..(call.n - call.rows)

C16_OneMutex ==
    [][hist.reactor_entered =>
          /\ ~(pc \in {"draw0_crit", "crit", "search"} /\ rd_pc = "crit")
          /\ pc \in {"draw0_crit", "crit", "search"} => lock = "reactor"
          /\ rd_pc = "crit" => lock = "reader"
          /\ ps' # ps =>
                \/ lock = "reactor" /\ pc \in {"draw0_crit", "crit", "search"}
                                    /\ rd_pc' = rd_pc
                \/ lock = "reader" /\ rd_pc = "crit" /\ pc' = pc
          /\ (out' # <<>> /\ out' # out) => lock = "reactor"]_vars

\* C16's case: the reader is inside its critical section while the reactor,
\* with an event in hand, waits for the mutex.
C16_Witness ==
    /\ hist.reactor_entered
    /\ rd_pc = "crit"
    /\ lock = "reader"
    /\ pc = "lock"
    /\ cur.type = "AppendData"

\* C17: with enough lines held from the start that no draw clamps the view
\* (at least as many as the presses plus the rows), once every terminal event
\* read so far was a Down press that the reader classified and sent, and the
\* reactor has applied every event and stands idle at its loop top, the view
\* has moved by exactly one line per press: upper_mark is the number of
\* presses (the view starts at 0).
C17_EachDownMovesOne ==
    (/\ runmode = "Dynamic"
     /\ hist.reactor_entered
     /\ hist.base_len >= keys_read + ps.rows
     /\ hist.downs = keys_read
     /\ rd_pc \in {"check", "poll"}
     /\ chan = <<>>
     /\ cur = NoEvent
     /\ pc = "loop")
        => ps.upper_mark = hist.downs

\* C18: the reader performs no event::read while the pause flag is in effect:
\* every step in which the reader reads a terminal event is taken with
\* input_thread_running true.
C18_NoReadWhilePaused ==
    [][keys_read' # keys_read => input_thread_running]_vars

\* C19: the reader has released the state lock before it forwards: the step
\* in which the reader sends a UserInput event on the channel is taken
\* without the reader holding the PagerState mutex.
C19_SendsAfterUnlock ==
    [][(rd_pc' # rd_pc /\ Len(chan') > Len(chan)) => lock # "reader"]_vars

\* C20: no UserInput(Number) event, and no event for an unrecognized terminal
\* event, is ever on the channel or in the reactor's hands; the step in which
\* the reader has classified a digit appends it to prefix_num and sends
\* nothing; the step in which it has classified anything else leaves
\* prefix_num empty; an unrecognized event sends nothing, a recognized one
\* that is no digit is sent (while a receiver lives) as one UserInput event.
C20_PrefixNum ==
    [][/\ \A i \in 1..Len(chan') :
             chan'[i].type = "UserInput" =>
                chan'[i].inp.kind \notin {"Number", "None"}
       /\ cur'.type = "UserInput" => cur'.inp.kind \notin {"Number", "None"}
       /\ (rd_pc = "crit" /\ rd_pc' # rd_pc) =>
             /\ rd_ev = "1" =>
                   /\ ps'.prefix_num = Append(ps.prefix_num, 1)
                   /\ chan' = chan
             /\ rd_ev # "1" => ps'.prefix_num = <<>>
             /\ rd_ev = "a" => chan' = chan
             /\ (rd_ev \notin {"1", "a"} /\ pc # "returned") =>
                   /\ Len(chan') = Len(chan) + 1
                   /\ chan'[Len(chan')].type = "UserInput"
                   /\ SubSeq(chan', 1, Len(chan)) = chan
       /\ (rd_pc' = rd_pc \/ rd_pc # "crit") => ps'.prefix_num = ps.prefix_num
      ]_vars

\* C20's case: two digits have been read and pushed, and nothing was sent.
C20_Witness ==
    /\ keys_read = 2
    /\ ps.prefix_num = <<1, 1>>
    /\ rd_pc = "check"
    /\ chan = <<>>
    /\ host_sent = 0
    /\ pc = "loop"

\* C21: generate_initial_state starts from a fresh PagerState; each of its
\* steps takes the oldest event off the channel and applies it, without a
\* terminal write or a full redraw; while it runs, no static check has been
\* made, the terminal is not set up, the reader is not spawned and the
\* reactor has received nothing; and when it has ended (init_core is at the
\* static checks or beyond) no event that was queued at the call of
\* init_core is left unconsumed, so the reactor receives none of them.
C21_InitialDrain ==
    [][/\ (pc = "start" /\ pc' # pc) =>
             ps' = NewPagerState(TermRows, TermCols)
       /\ (pc = "gen" /\ pc' = "gen" /\ chan' # chan /\ Len(chan') < Len(chan)) =>
             /\ chan = <<Head(chan)>> \o chan'
             /\ ps' = HandleEvent(Head(chan), ps)
             /\ out' = <<>>
       /\ pc' \in {"start", "gen"} =>
             /\ n_full' = 0
             /\ ~hist'.checked
             /\ hist'.setup = "none"
             /\ term_mode' = "cooked"
             /\ rd_pc' = "none"
             /\ cur' = NoEvent
       /\ (hist'.checked \/ pc' \in {"checks", "draw0", "draw0_crit", "loop",
                                    "lock", "crit", "search"}) =>
             hist'.pending = 0
       /\ (pc = "gen" /\ pc' = "checks") => chan = <<>>]_vars

\* C21's case: two events were queued when init_core was called; the drain
\* has consumed the first (its lines are held) and the second is next.
C21_Witness ==
    /\ pc = "gen"
    /\ host_sent = 2
    /\ hist.pending = 1
    /\ Len(chan) = 1
    /\ Len(ps.formatted_lines) = MaxAppend

C23_NoOutputAfterExit ==
    [][is_exitted' => (n_full' = n_full /\ (out' = <<>> \/ out' = out))]_vars

\* C24: in no call of write_lines, whatever the text, rows and requested
\* upper_mark (usize::MAX - 1 and usize::MAX included, and upper_mark = 0
\* with rows = 0), does an operation on upper_mark overflow or underflow the
\* usize: the call neither panics nor goes on with a wrapped value.
C24_NoOverflow ==
    call.state # "none" => (call.state # "panicked" /\ ~call.overflowed)

\* C25: for a fixed text, rows, line-number mode and build, the upper_mark
\* write_lines leaves is monotone non-decreasing in the one requested: when
\* a call requested u2 and returned Ok leaving r2, every call requesting
\* some u1 <= u2 that returns leaves r1 <= r2.
C25_MarkMonotone ==
    call.state = "returned Ok" =>
        \A u1 \in 0..call.requested :
            LET w1 == WriteLines([call EXCEPT !.upper_mark = u1])
            IN  ~(w1.overflow /\ call.overflow_checks) =>
                    w1.upper_mark <= call.upper_mark

====
